---------------------------- MODULE Spec2Model ----------------------------
(***************************************************************************)
(* RBS TaskHub (src/app.py): a Streamlit dashboard over a hosted "tasks"   *)
(* table.  Every browser session runs main() from the top on each user     *)
(* interaction; the sessions share the table and interleave at each        *)
(* database call.                                                          *)
(*                                                                         *)
(* Emails are sequences of characters, task descriptions sequences of      *)
(* words, dates day numbers relative to today.                             *)
(***************************************************************************)
EXTENDS Integers, Sequences, FiniteSets, TLC

\* ------------------------------------------------------------------ bounds

\* The tasks table holds at most MaxTasks rows: no Add Task click beyond it.
MaxTasks == 2

\* The browser sessions that are open at the same time.
Sessions == {"s1", "s2"}

\* ----------------------------------------------------------- configuration

COMPANY_DOMAIN == <<"@", "r", "b", "s", "g", "o", ".", "c", "o", "m">>

ADMIN_EMAIL == <<"m", "s", "k">> \o COMPANY_DOMAIN

PRAVEEN == <<"p", "r", "a", "v", "e", "e", "n">> \o COMPANY_DOMAIN

TEAM_MEMBERS ==
    << ADMIN_EMAIL,
       PRAVEEN,
       <<"a", "r", "j", "u", "n">> \o COMPANY_DOMAIN,
       <<"p", "r", "a", "s", "a", "n", "n", "a">> \o COMPANY_DOMAIN,
       <<"c", "h", "r", "i", "s">> \o COMPANY_DOMAIN,
       <<"s", "a", "r", "a", "h">> \o COMPANY_DOMAIN >>

\* ------------------------------------------------------------------ inputs

\* What the user of each session types into "Enter Work Email:": the first
\* is the manager's browser (the admin address, or a foreign address), the
\* second a team member's (their address, or one with the company domain
\* not at its end).
EmailInputs ==
    { ADMIN_EMAIL,
      PRAVEEN,
      <<"e", "v", "e", "@", "x", ".", "i", "o">>,
      <<"m", "s", "k">> \o COMPANY_DOMAIN \o <<".", "x">> }

\* The teammates a user picks in "Select User" (a subset of the peers).
PickUsers == {ADMIN_EMAIL, PRAVEEN}

\* peers = [m for m in TEAM_MEMBERS if m != current_user]
peers(current_user) == SelectSeq(TEAM_MEMBERS, LAMBDA m : m # current_user)

\* What current_user fills into the Create Task form: a task for themselves
\* with the target date left at its default (None, here <<>>), a task for a
\* teammate that is overdue from the start, and a form with the description
\* left blank.  A description is a sequence of words.
FormInputs(current_user) ==
    { [assign_type |-> "Myself", pick |-> current_user,
       desc |-> <<"fix", "api", "error">>, prio |-> "High", due |-> <<>>],
      [assign_type |-> "Myself", pick |-> current_user,
       desc |-> <<>>, prio |-> "Low", due |-> <<1>>] }
    \cup
    { [assign_type |-> "Teammate", pick |-> p,
       desc |-> <<"ask", "praveen", "to", "prepare", "report">>,
       prio |-> "Medium", due |-> <<-1>>] :
         p \in {m \in PickUsers : \E i \in DOMAIN peers(current_user) :
                                     peers(current_user)[i] = m} }

\* What a user types into a row's "Remark" box ("" clears it).
RemarkInputs == {"", "r1"}

FilterViews == {"All", "Today", "Tomorrow", "Overdue"}

\* ------------------------------------------------------------------ values

\* st.session_state has no 'user' key yet.
NoUser == <<"<unset>">>

\* Python's None as the remarks argument.
None == "<None>"

NoEvent == [kind |-> "none", view |-> "", id |-> 0]

\* Nothing was called in the last step.
NoCall == [fn |-> "none"]

\* What a run rendered of the diary: whether the filter buttons, and the
\* rows of which tasks.
NoDiary == [buttons |-> FALSE, rows |-> {}]

\* Python truthiness of the remarks argument and of a text input's value.
Truthy(x) == x # None /\ x # ""

\* pd.Timestamp.now().normalize(): dates are day numbers relative to it.
today_ts == 0

\* str.endswith
EndsWith(str, suffix) ==
    /\ Len(str) >= Len(suffix)
    /\ SubSeq(str, Len(str) - Len(suffix) + 1, Len(str)) = suffix

Range(seq) == {seq[i] : i \in DOMAIN seq}

Ids(rows) == {rows[i].id : i \in DOMAIN rows}

\* ------------------------------------------------------------------- state

VARIABLES
    tasks,          \* the rows of the "tasks" table, in insertion order
    activity_logs,  \* the rows of the "activity_logs" table
    logged_in,      \* st.session_state['logged_in'] of each session
    user,           \* st.session_state['user'] of each session
    filter_view,    \* st.session_state['filter_view'] of each session
    rem,            \* each session's "Remark" inputs, by task id (key r_<id>)
    clicked,        \* the button click the session's running script serves
    pc,             \* where each session's script run stands
    df,             \* the DataFrame the running script's get_tasks returned
    shown,          \* what each session's last completed run rendered
    idx,            \* the diary loop's position in the sorted rows
    call            \* the login attempt or database function call of the
                    \* last step, if any

vars == <<tasks, activity_logs, logged_in, user, filter_view, rem,
          clicked, pc, df, shown, idx, call>>

TaskIds == 1..MaxTasks

NoRemarks == [id \in TaskIds |-> ""]

\* ------------------------------------------------------ database functions

\* supabase.table("tasks").insert(data).execute(): the table assigns the
\* next id (rows are never deleted, so it is the row count plus one).
insert(table, data) ==
    Append(table, [id |-> Len(table) + 1,
                   created_by |-> data.created_by,
                   assigned_to |-> data.assigned_to,
                   task_desc |-> data.task_desc,
                   status |-> data.status,
                   priority |-> data.priority,
                   due_date |-> data.due_date,
                   project_ref |-> data.project_ref,
                   staff_remarks |-> data.staff_remarks,
                   manager_remarks |-> data.manager_remarks])

\* supabase.table("tasks").update(data).eq("id", task_id).execute()
\* sets the columns data names in every row whose id is task_id.
update(table, data, task_id) ==
    [i \in DOMAIN table |->
        IF table[i].id = task_id
        THEN [table[i] EXCEPT
                !.status = data.status,
                !.staff_remarks = IF "staff_remarks" \in DOMAIN data
                                  THEN data.staff_remarks ELSE @]
        ELSE table[i]]

\* add_task with another initial status.
add_task_StatusNew(table, created_by, assigned_to, task_desc, priority, due_date, project_ref, db_ok) ==
    IF db_ok
    THEN [table |-> insert(table,
                     [created_by |-> created_by, assigned_to |-> assigned_to,
                      task_desc |-> task_desc, status |-> "New",
                      priority |-> priority,
                      due_date |-> IF due_date # <<>> THEN due_date[1]
                                   ELSE today_ts,
                      project_ref |-> project_ref, staff_remarks |-> "",
                      manager_remarks |-> ""]),
          ret |-> TRUE]
    ELSE [table |-> table, ret |-> FALSE]

\* add_task: db_ok is whether the insert's execute() returns (TRUE) or
\* raises (FALSE).  The result is the table afterwards and the return value.
add_task(table, created_by, assigned_to, task_desc, priority, due_date, project_ref, db_ok) ==
    LET final_date == IF due_date # <<>> THEN due_date[1] ELSE today_ts
        data == [created_by |-> created_by,
                 assigned_to |-> assigned_to,
                 task_desc |-> task_desc,
                 status |-> "Open",
                 priority |-> priority,
                 due_date |-> final_date,
                 project_ref |-> project_ref,
                 staff_remarks |-> "",
                 manager_remarks |-> ""]
    IN  IF db_ok
        THEN [table |-> insert(table, data), ret |-> TRUE]
        ELSE [table |-> table, ret |-> FALSE]

\* get_tasks without the narrowing.
get_tasks_Unscoped(table, user_email, is_admin) == table

\* get_tasks narrowed by the creator.
get_tasks_ByCreator(table, user_email, is_admin) ==
    IF ~is_admin
    THEN SelectSeq(table, LAMBDA r : r.created_by = user_email)
    ELSE table

\* get_tasks: the select, narrowed to the viewer's rows unless is_admin.
get_tasks(table, user_email, is_admin) ==
    IF ~is_admin
    THEN SelectSeq(table, LAMBDA r : r.assigned_to = user_email)
    ELSE table

\* update_task_status that lets only a task In Progress become Completed.
update_task_status_Workflow(table, task_id, new_status, remarks, db_ok) ==
    LET data == IF Truthy(remarks)
                THEN [status |-> new_status, staff_remarks |-> remarks]
                ELSE [status |-> new_status]
        refused == /\ new_status = "Completed"
                   /\ \E i \in DOMAIN table :
                         table[i].id = task_id /\ table[i].status # "In Progress"
    IN  IF db_ok /\ ~refused
        THEN [table |-> update(table, data, task_id), ret |-> TRUE]
        ELSE [table |-> table, ret |-> FALSE]

\* update_task_status whose failed call has written the status already.
update_task_status_PartialCommit(table, task_id, new_status, remarks, db_ok) ==
    LET data == IF Truthy(remarks)
                THEN [status |-> new_status, staff_remarks |-> remarks]
                ELSE [status |-> new_status]
    IN  IF db_ok
        THEN [table |-> update(table, data, task_id), ret |-> TRUE]
        ELSE [table |-> update(table, [status |-> new_status], task_id),
              ret |-> FALSE]

\* update_task_status that writes the remark it was passed, None as empty.
update_task_status_ClearsRemark(table, task_id, new_status, remarks, db_ok) ==
    LET data == [status |-> new_status,
                 staff_remarks |-> IF Truthy(remarks) THEN remarks ELSE ""]
    IN  IF db_ok
        THEN [table |-> update(table, data, task_id), ret |-> TRUE]
        ELSE [table |-> table, ret |-> FALSE]

\* update_task_status: db_ok as for add_task.
update_task_status(table, task_id, new_status, remarks, db_ok) ==
    LET data == IF Truthy(remarks)
                THEN [status |-> new_status, staff_remarks |-> remarks]
                ELSE [status |-> new_status]
    IN  IF db_ok
        THEN [table |-> update(table, data, task_id), ret |-> TRUE]
        ELSE [table |-> table, ret |-> FALSE]

\* ------------------------------------------------------------- the session

\* main: is_admin = (current_user == ADMIN_EMAIL)
IsAdmin(current_user) == current_user = ADMIN_EMAIL

\* The login check as "the address holds the company domain".
LoginAllowed_Contains(e) ==
    \E i \in 1..(Len(e) - Len(COMPANY_DOMAIN) + 1) :
       SubSeq(e, i, i + Len(COMPANY_DOMAIN) - 1) = COMPANY_DOMAIN

\* The check of the "Login" button.
LoginAllowed(e) == EndsWith(e, COMPANY_DOMAIN)

\* target_user that ignores the teammate picked.
target_user_Self(assign_type, pick, current_user) == current_user

\* target_user of the Create Task form.
target_user(assign_type, pick, current_user) ==
    IF assign_type = "Teammate" THEN pick ELSE current_user

\* active_df that keeps the Completed rows.
active_df_KeepsCompleted(rows) == rows

\* active_df = df[df['status'] != 'Completed']
active_df(rows) == SelectSeq(rows, LAMBDA r : r.status # "Completed")

\* filtered_df of the selected view.
filtered_df(rows, view) ==
    LET a == active_df(rows)
    IN  CASE view = "Today" ->
               SelectSeq(a, LAMBDA r : r.due_date = today_ts)
          [] view = "Tomorrow" ->
               SelectSeq(a, LAMBDA r : r.due_date = today_ts + 1)
          [] view = "Overdue" ->
               SelectSeq(a, LAMBDA r : r.due_date < today_ts)
          [] OTHER -> a

\* The order of the priority labels as strings: their first characters are
\* U+26A1 (Medium), U+1F525 (High) and U+1F9CA (Low).
PrioKey(p) == CASE p = "Medium" -> 1 [] p = "High" -> 2 [] OTHER -> 3

RowBefore(a, b) ==
    \/ a.due_date < b.due_date
    \/ a.due_date = b.due_date /\ PrioKey(a.priority) < PrioKey(b.priority)

\* Insert r after every row that is not after it (the sort is stable).
RECURSIVE InsertSorted(_, _)
InsertSorted(sorted, r) ==
    IF sorted = <<>> THEN <<r>>
    ELSE IF RowBefore(r, sorted[1]) THEN <<r>> \o sorted
    ELSE <<sorted[1]>> \o InsertSorted(Tail(sorted), r)

\* filtered_df.sort_values(by=["due_date", "priority"])
RECURSIVE sort_values(_)
sort_values(rows) ==
    IF rows = <<>> THEN <<>>
    ELSE InsertSorted(sort_values(SubSeq(rows, 1, Len(rows) - 1)),
                      rows[Len(rows)])

\* The rows the diary loop iterates over, in order.
DiaryRows(rows, view) == sort_values(filtered_df(rows, view))

\* Streamlit drops the state of the widgets a completed run did not render.
KeepRendered(r, ids) == [id \in TaskIds |-> IF id \in ids THEN r[id] ELSE ""]

\* -------------------------------------------------------------------- Init

\* main on a fresh session: logged_in False, nothing else set; empty tables.
Init ==
    /\ tasks = <<>>
    /\ activity_logs = <<>>
    /\ logged_in = [s \in Sessions |-> FALSE]
    /\ user = [s \in Sessions |-> NoUser]
    /\ filter_view = [s \in Sessions |-> "All"]
    /\ rem = [s \in Sessions |-> NoRemarks]
    /\ clicked = [s \in Sessions |-> NoEvent]
    /\ pc = [s \in Sessions |-> "idle"]
    /\ df = [s \in Sessions |-> <<>>]
    /\ shown = [s \in Sessions |-> NoDiary]
    /\ idx = [s \in Sessions |-> 0]
    /\ call = NoCall

\* ------------------------------------------------------------ login screen

\* The user types e into "Enter Work Email:" and presses "Login": on a
\* company address the session logs in and st.rerun() restarts the script
\* into the dashboard; otherwise st.error.
Login(s, e) ==
    /\ pc[s] = "idle" /\ ~logged_in[s]
    /\ IF LoginAllowed(e)
       THEN /\ logged_in' = [logged_in EXCEPT ![s] = TRUE]
            /\ user' = [user EXCEPT ![s] = e]
            /\ pc' = [pc EXCEPT ![s] = "run"]
       ELSE UNCHANGED <<logged_in, user, pc>>
    /\ call' = [fn |-> "login", s |-> s, email |-> e]
    /\ UNCHANGED <<tasks, activity_logs, filter_view, rem, clicked, df,
                   shown, idx>>

\* The "Logout" button: logged_in False and a rerun, which renders the login
\* screen; 'user' and 'filter_view' stay in st.session_state.
Logout(s) ==
    /\ pc[s] = "idle" /\ logged_in[s]
    /\ logged_in' = [logged_in EXCEPT ![s] = FALSE]
    /\ rem' = [rem EXCEPT ![s] = NoRemarks]
    /\ shown' = [shown EXCEPT ![s] = NoDiary]
    /\ call' = NoCall
    /\ UNCHANGED <<tasks, activity_logs, user, filter_view, clicked, pc, df,
                   idx>>

\* ------------------------------------------------------------- create task

\* The user fills the Create Task form with f and presses "Add Task"; the
\* run that serves the click calls add_task when the description is not
\* empty and warns otherwise.  It renders no diary widget.
AddTask(s, f) ==
    /\ pc[s] = "idle" /\ logged_in[s]
    /\ Len(tasks) < MaxTasks
    /\ LET current_user == user[s]
           target == target_user(f.assign_type, f.pick, current_user)
       IN  IF f.desc # <<>>
           THEN \E db_ok \in BOOLEAN :
                  LET r == add_task(tasks, current_user, target, f.desc,
                                    f.prio, f.due, "General", db_ok)
                  IN  /\ tasks' = r.table
                      /\ call' = [fn |-> "add_task", s |-> s, form |-> f,
                                  db_ok |-> db_ok, ret |-> r.ret]
           ELSE /\ tasks' = tasks
                /\ call' = NoCall
    /\ rem' = [rem EXCEPT ![s] = NoRemarks]
    /\ shown' = [shown EXCEPT ![s] = NoDiary]
    /\ UNCHANGED <<activity_logs, logged_in, user, filter_view, clicked, pc,
                   df, idx>>

\* ------------------------------------------------------------------- diary

\* A diary run of session s from the top of main to the loop, serving the
\* click ev with the remark boxes holding r: get_tasks, then (df not empty)
\* a clicked filter button sets filter_view, then the view is filtered and
\* sorted; the run ends here when there is no row to show.
StartRun(s, ev, r) ==
    LET current_user == user[s]
        is_admin == IsAdmin(current_user)
        got == get_tasks(tasks, current_user, is_admin)
        view == IF got # <<>> /\ ev.kind = "filter"
                THEN ev.view ELSE filter_view[s]
        rows == DiaryRows(got, view)
    IN  /\ filter_view' = [filter_view EXCEPT ![s] = view]
        /\ call' = [fn |-> "get_tasks", s |-> s, user_email |-> current_user,
                    is_admin |-> is_admin, result |-> got]
        /\ IF rows = <<>>
           THEN /\ pc' = [pc EXCEPT ![s] = "idle"]
                /\ df' = [df EXCEPT ![s] = <<>>]
                /\ idx' = [idx EXCEPT ![s] = 0]
                /\ clicked' = [clicked EXCEPT ![s] = NoEvent]
                /\ rem' = [rem EXCEPT ![s] = NoRemarks]
                /\ shown' = [shown EXCEPT ![s] =
                               [buttons |-> got # <<>>, rows |-> {}]]
           ELSE /\ pc' = [pc EXCEPT ![s] = "remark"]
                /\ df' = [df EXCEPT ![s] = got]
                /\ idx' = [idx EXCEPT ![s] = 1]
                /\ clicked' = [clicked EXCEPT ![s] =
                                 IF ev.kind = "done" THEN ev ELSE NoEvent]
                /\ rem' = [rem EXCEPT ![s] = r]
                /\ shown' = shown
        /\ UNCHANGED <<tasks, activity_logs, logged_in, user>>

\* The user opens or refreshes "Your Diary".
OpenDiary(s) ==
    /\ pc[s] = "idle" /\ logged_in[s]
    /\ StartRun(s, NoEvent, rem[s])

\* One of the four filter buttons, which the diary renders when df is not
\* empty.
ClickFilter(s, v) ==
    /\ pc[s] = "idle" /\ logged_in[s]
    /\ shown[s].buttons
    /\ StartRun(s, [kind |-> "filter", view |-> v, id |-> 0], rem[s])

\* The user types into the "Remark" box of a row the diary shows.
TypeRemark(s, id, text) ==
    /\ pc[s] = "idle" /\ logged_in[s]
    /\ id \in shown[s].rows
    /\ StartRun(s, NoEvent, [rem[s] EXCEPT ![id] = text])

\* The "Done" button of a row the diary shows.
ClickDone(s, id) ==
    /\ pc[s] = "idle" /\ logged_in[s]
    /\ id \in shown[s].rows
    /\ StartRun(s, [kind |-> "done", view |-> "", id |-> id], rem[s])

\* The run st.rerun() started (after a login, after a Done).
Rerun(s) ==
    /\ pc[s] = "run"
    /\ StartRun(s, NoEvent, rem[s])

\* The loop body's remark box: a non-empty value is written with the row's
\* status as this run read it.
RowRemark(s) ==
    /\ pc[s] = "remark"
    /\ LET row == DiaryRows(df[s], filter_view[s])[idx[s]]
           new_rem == rem[s][row.id]
       IN  IF Truthy(new_rem)
           THEN \E db_ok \in BOOLEAN :
                  LET r == update_task_status(tasks, row.id, row.status,
                                              new_rem, db_ok)
                  IN  /\ tasks' = r.table
                      /\ call' = [fn |-> "update_task_status", s |-> s,
                                  task_id |-> row.id,
                                  new_status |-> row.status,
                                  remarks |-> new_rem,
                                  db_ok |-> db_ok, ret |-> r.ret]
           ELSE /\ tasks' = tasks
                /\ call' = NoCall
    /\ pc' = [pc EXCEPT ![s] = "done"]
    /\ UNCHANGED <<activity_logs, logged_in, user, filter_view, rem, clicked,
                   df, shown, idx>>

\* The loop body's Done button: when it is the one clicked, the row is set
\* to Completed and st.rerun() restarts the script (a stopped run drops no
\* widget state); otherwise the loop goes on to the next row, and the run
\* ends after the last.
RowDone(s) ==
    /\ pc[s] = "done"
    /\ LET rows == DiaryRows(df[s], filter_view[s])
           row == rows[idx[s]]
       IN  IF clicked[s].kind = "done" /\ clicked[s].id = row.id
           THEN \E db_ok \in BOOLEAN :
                  LET r == update_task_status(tasks, row.id, "Completed",
                                              None, db_ok)
                  IN  /\ tasks' = r.table
                      /\ call' = [fn |-> "update_task_status", s |-> s,
                                  task_id |-> row.id,
                                  new_status |-> "Completed",
                                  remarks |-> None,
                                  db_ok |-> db_ok, ret |-> r.ret]
                      /\ clicked' = [clicked EXCEPT ![s] = NoEvent]
                      /\ pc' = [pc EXCEPT ![s] = "run"]
                      /\ df' = [df EXCEPT ![s] = <<>>]
                      /\ idx' = [idx EXCEPT ![s] = 0]
                      /\ UNCHANGED <<rem, shown>>
           ELSE /\ tasks' = tasks
                /\ call' = NoCall
                /\ IF idx[s] < Len(rows)
                   THEN /\ idx' = [idx EXCEPT ![s] = @ + 1]
                        /\ pc' = [pc EXCEPT ![s] = "remark"]
                        /\ UNCHANGED <<clicked, rem, df, shown>>
                   ELSE /\ idx' = [idx EXCEPT ![s] = 0]
                        /\ pc' = [pc EXCEPT ![s] = "idle"]
                        /\ clicked' = [clicked EXCEPT ![s] = NoEvent]
                        /\ rem' = [rem EXCEPT ![s] =
                                     KeepRendered(@, Ids(rows))]
                        /\ shown' = [shown EXCEPT ![s] =
                                       [buttons |-> TRUE, rows |-> Ids(rows)]]
                        /\ df' = [df EXCEPT ![s] = <<>>]
    /\ UNCHANGED <<activity_logs, logged_in, user, filter_view>>

\* ----------------------------------------------------------- specification

\* One browser session: every interaction of its user, every step of its
\* script run.
Next ==
    \E s \in {"s1"} :
       \/ \E e \in EmailInputs : Login(s, e)
       \/ Logout(s)
       \/ \E f \in FormInputs(user[s]) : AddTask(s, f)
       \/ OpenDiary(s)
       \/ \E v \in FilterViews : ClickFilter(s, v)
       \/ \E id \in TaskIds, text \in RemarkInputs : TypeRemark(s, id, text)
       \/ \E id \in TaskIds : ClickDone(s, id)
       \/ Rerun(s)
       \/ RowRemark(s)
       \/ RowDone(s)

Spec == Init /\ [][Next]_vars

\* Two browser sessions at once, their script runs interleaved at every
\* database call: the manager's, who reads the diary and presses Done, and
\* a team member's, who also adds tasks and types remarks.  Nobody logs out
\* or changes the diary's filter.
NextRace ==
    \/ Login("s1", ADMIN_EMAIL)
    \/ Login("s2", PRAVEEN)
    \/ \E f \in FormInputs(user["s2"]) : AddTask("s2", f)
    \/ \E id \in TaskIds, text \in RemarkInputs : TypeRemark("s2", id, text)
    \/ \E s \in Sessions :
          \/ OpenDiary(s)
          \/ \E id \in TaskIds : ClickDone(s, id)
          \/ Rerun(s)
          \/ RowRemark(s)
          \/ RowDone(s)

SpecRace == Init /\ [][NextRace]_vars

\* ------------------------------------------------------------------ claims

Statuses == {"Open", "In Progress", "Pending Info", "Completed"}

\* The row of the task the last add_task inserted.
NewRow == tasks[Len(tasks)]

\* C1: every stored task's status is one of Open, In Progress, Pending Info,
\* Completed, after add_task and whatever update_task_status calls the
\* remark boxes and Done buttons issue.
C1_StatusInEnumeration ==
    \A i \in DOMAIN tasks : tasks[i].status \in Statuses

\* A task that a remark edit and then a Done click have updated.
C1_Witness ==
    \E i \in DOMAIN tasks :
        tasks[i].status = "Completed" /\ tasks[i].staff_remarks = "r1"

\* C2: what get_tasks returns for a session: is_admin only for the admin
\* address; with is_admin every stored task; without it exactly the stored
\* tasks assigned to the viewer, each once and no other.
C2_ListingScopedToAssignee ==
    call.fn = "get_tasks" =>
        /\ call.user_email = user[call.s]
        /\ call.is_admin <=> (user[call.s] = ADMIN_EMAIL)
        /\ IF call.is_admin
           THEN call.result = tasks
           ELSE /\ \A j \in DOMAIN call.result :
                     /\ call.result[j].assigned_to = call.user_email
                     /\ \E i \in DOMAIN tasks : tasks[i] = call.result[j]
                /\ \A i \in DOMAIN tasks :
                     tasks[i].assigned_to = call.user_email =>
                        Cardinality({j \in DOMAIN call.result :
                                        call.result[j] = tasks[i]}) = 1

\* A team member's listing that holds a task and leaves another's out.
C2_Witness ==
    /\ call.fn = "get_tasks"
    /\ ~call.is_admin
    /\ Len(call.result) = 1
    /\ Len(tasks) = 2

\* The assignee the Create Task form of the last add_task selected.
FormAssignee ==
    IF call.form.assign_type = "Teammate" THEN call.form.pick
    ELSE user[call.s]

\* How often the task the last add_task inserted is in the creator's own
\* (non-admin) listing.
TimesListedForCreator ==
    Len(SelectSeq(get_tasks(tasks, user[call.s], FALSE),
                  LAMBDA r : r.id = NewRow.id))

\* C3: right after a successful add_task by a non-admin creator,
\* get_tasks(creator, is_admin=False) holds the new task exactly once when
\* the creator is the assignee and not at all otherwise.
C3_CreatorSeesOwnTaskOnly ==
    (call.fn = "add_task" /\ call.ret /\ user[call.s] # ADMIN_EMAIL) =>
        TimesListedForCreator = IF FormAssignee = user[call.s] THEN 1 ELSE 0

\* A team member who has a task of their own has just added one for a
\* teammate.
C3_Witness ==
    /\ call.fn = "add_task" /\ call.ret
    /\ user[call.s] = PRAVEEN
    /\ call.form.assign_type = "Teammate"
    /\ Len(tasks) = 2 /\ tasks[1].assigned_to = PRAVEEN

\* The viewers of C4: the admin, a team member with tasks, one without.
Viewers == {TEAM_MEMBERS[1], TEAM_MEMBERS[2], TEAM_MEMBERS[3]}

\* C4: no step deletes a task or changes its id; an update to Completed that
\* succeeds stores Completed; and after every step that changes the table,
\* a task stored as Completed is in no viewer's diary view (All Pending,
\* Today, Tomorrow, Overdue) computed from a fresh get_tasks, and is in the
\* admin's listing.
C4_CompletedHiddenNotDeleted ==
    [][ /\ Len(tasks') >= Len(tasks)
        /\ \A i \in DOMAIN tasks : tasks'[i].id = tasks[i].id
        /\ (call'.fn = "update_task_status" /\ call'.ret
               /\ call'.new_status = "Completed") =>
              \E i \in DOMAIN tasks' :
                 tasks'[i].id = call'.task_id /\ tasks'[i].status = "Completed"
        /\ tasks' # tasks =>
              LET done == {tasks'[i].id : i \in {k \in DOMAIN tasks' :
                                          tasks'[k].status = "Completed"}}
              IN  /\ \A u \in Viewers, v \in FilterViews :
                        done \cap Ids(DiaryRows(get_tasks(tasks', u,
                                                          IsAdmin(u)), v)) = {}
                  /\ done \subseteq Ids(get_tasks(tasks', ADMIN_EMAIL, TRUE))
      ]_vars

\* A listing read after a Done holds the Completed task, beside an open one.
C4_Witness ==
    /\ call.fn = "get_tasks"
    /\ Len(call.result) = 2
    /\ \E j \in DOMAIN call.result : call.result[j].status = "Completed"
    /\ \E j \in DOMAIN call.result : call.result[j].status = "Open"

TokenOwner ==
    [w \in {"msk", "praveen", "arjun", "prasanna", "chris", "sarah"} |->
        CASE w = "msk" -> TEAM_MEMBERS[1]
          [] w = "praveen" -> TEAM_MEMBERS[2]
          [] w = "arjun" -> TEAM_MEMBERS[3]
          [] w = "prasanna" -> TEAM_MEMBERS[4]
          [] w = "chris" -> TEAM_MEMBERS[5]
          [] OTHER -> TEAM_MEMBERS[6]]

LeadingVerbs == {"ask", "tell", "assign", "to", "request"}

TokenPositions(text) == {i \in DOMAIN text : text[i] \in DOMAIN TokenOwner}

\* The text without its word at position i.
WithoutWord(text, i) ==
    SubSeq(text, 1, i - 1) \o SubSeq(text, i + 1, Len(text))

\* The text without one leading verb.
WithoutLeadingVerb(text) ==
    IF text # <<>> /\ text[1] \in LeadingVerbs THEN Tail(text) ELSE text

C8_LoginOnlyWithCompanyDomain ==
    /\ [](\A s \in Sessions :
             /\ logged_in[s] => user[s] # NoUser
             /\ user[s] # NoUser => EndsWith(user[s], COMPANY_DOMAIN))
    /\ [][ (call'.fn = "login" /\ ~EndsWith(call'.email, COMPANY_DOMAIN)) =>
              /\ ~logged_in'[call'.s]
              /\ UNCHANGED <<logged_in, user, filter_view, pc>>
         ]_vars

\* A refused attempt on a fresh session, with an address that holds the
\* company domain but does not end with it.
C8_Witness ==
    /\ call.fn = "login"
    /\ Len(call.email) > Len(ADMIN_EMAIL)
    /\ SubSeq(call.email, 1, Len(ADMIN_EMAIL)) = ADMIN_EMAIL
    /\ ~logged_in[call.s]
    /\ user[call.s] = NoUser

\* C9: an update_task_status call changes, of the row whose id it names,
\* only the status and, when it passes a non-empty remark, staff_remarks;
\* every other row stays as it is and no row comes or goes.
C9_UpdateTouchesStatusAndRemarkOnly ==
    [][ call'.fn = "update_task_status" =>
           /\ Len(tasks') = Len(tasks)
           /\ \A i \in DOMAIN tasks :
                 IF tasks[i].id = call'.task_id
                 THEN tasks'[i] =
                         [tasks[i] EXCEPT
                            !.status = tasks'[i].status,
                            !.staff_remarks =
                               IF Truthy(call'.remarks)
                               THEN tasks'[i].staff_remarks ELSE @]
                 ELSE tasks'[i] = tasks[i]
      ]_vars

\* A Done on a task that has a remark, beside another task: the remark is
\* still there.
C9_Witness ==
    /\ call.fn = "update_task_status" /\ call.ret
    /\ call.remarks = None
    /\ Len(tasks) = 2
    /\ \E i \in DOMAIN tasks :
          tasks[i].id = call.task_id /\ tasks[i].staff_remarks = "r1"

\* C10 as stated: an update_task_status call that passes a remark (a remark
\* edit) leaves every task's stored status as it was.
C10_RemarkEditKeepsStatus ==
    [][ (call'.fn = "update_task_status" /\ Truthy(call'.remarks)) =>
           \A i \in DOMAIN tasks : tasks'[i].status = tasks[i].status
      ]_vars

=============================================================================
